---- MODULE Spec2Model ----
(***************************************************************************)
(* VideoDL (video_dl.py): configuration parsing, options overlay and the   *)
(* job queue of main(), as a state machine.                                *)
(*                                                                         *)
(* Texts (configuration values, flags) are sequences of one-character      *)
(* strings, so that split(","), strip() and lower() are computed and not   *)
(* assumed.  Option values are tagged records [kind, items]: a JSON/YAML    *)
(* value of the options file, with items always a sequence of strings      *)
(*   list : the elements          str  : the text, <<>> for ""             *)
(*   int  : <<"0">>, <<"5">>      dict : the keys                          *)
(*   bool : <<"True">>/<<"False">>  none : <<>>                            *)
(* A mapping (dict) is a function from the keys present to such values.    *)
(***************************************************************************)
EXTENDS Integers, Sequences, FiniteSets, TLC

VARIABLES
    pc,        \* position of the operation under way
    options,   \* the mapping object handed to interpret_options (mutable)
    given,     \* that mapping as it was when the call was made
    map,       \* Program.map: the section's keys and their texts
    disk,      \* the options file as the file system holds it
    has_yaml,  \* _HAS_YAML: whether PyYAML could be imported
    interpret, \* read_options' argument of that name
    call,      \* the parser called on the section, and its arguments
    config,    \* the configuration read: its sections, in file order
    job_identifiers, \* the positional command-line arguments
    cursor,    \* parse_config: index of the next identifier; then of the next job
    jobs,      \* the Jobs parse_config has yielded, in order
    handlers,  \* logging's registry: the handlers of each named logger
    events,    \* the sections processed, the sleeps and the engine calls so far
    files_read, \* search_configs: "read", "none" (no file found) or "error"
    cli_args,  \* args of main (parse_cla): sleep is the --sleep bound, 0 when not given
    clock,     \* now: time.perf_counter(); start: main's clock_start;
               \* begun: the reading of the clock when job assembly began
    exit_status, \* the status the process ended with, -1 while it runs
    ret,       \* what the operation returned (or that it raised)
    log        \* records emitted to the "VideoDL" logger so far

vars == <<pc, options, given, map, disk, has_yaml, interpret, call, config,
          job_identifiers, cursor, jobs, handlers, events, files_read, cli_args,
          clock, exit_status, ret, log>>

mainVars == <<config, job_identifiers, cursor, jobs, handlers, events, files_read,
              cli_args, clock, exit_status>>

----------------------------------------------------------------------------
(* Bounds of the model *)

\* longest options array (value of the sentinel key) tried
MaxTokens == 2

\* most comma-separated fields in a SleepInterval value tried
MaxFields == 3

\* most sections in the configuration file
MaxSections == 2

\* longest bound of a sleep interval tried, in seconds
MaxSeconds == 5

----------------------------------------------------------------------------
(* Values *)

ListV(s) == [kind |-> "list", items |-> s]
StrV(s) == [kind |-> "str", items |-> s]
IntV(s) == [kind |-> "int", items |-> <<s>>]
BoolV(b) == [kind |-> "bool", items |-> <<IF b THEN "True" ELSE "False">>]
DictV(keys) == [kind |-> "dict", items |-> keys]
NoneV == [kind |-> "none", items |-> <<>>]

\* Python truth value of an object (what `if array := ...` tests)
Truthy(x) ==
    CASE x.kind = "none" -> FALSE
      [] x.kind = "int" -> x.items /= <<"0">>
      [] x.kind = "bool" -> x.items = <<"True">>
      [] OTHER -> x.items /= <<>>

\* isinstance(x, list)
IsList(x) == x.kind = "list"

EmptyMap == [k \in {} |-> NoneV]

\* dict.get(key): the value, None when the key is absent
MapGet(m, key) == IF key \in DOMAIN m THEN m[key] ELSE NoneV

\* the mapping with m[key] = value set
MapSet(m, key, value) ==
    [k \in DOMAIN m \cup {key} |-> IF k = key THEN value ELSE m[k]]

Range(s) == {s[i] : i \in 1..Len(s)}

SeqsUpTo(S, n) == UNION {[1..k -> S] : k \in 0..n}

\* a logging call: level, format string, arguments
LogRec(level, msg, args) == [level |-> level, msg |-> msg, args |-> args]

----------------------------------------------------------------------------
(* The engine grammar: yt_dlp.parse_options(args).ydl_opts, restricted to   *)
(* the flags below.  optparse reads the vector left to right; an option    *)
(* that takes a value consumes the next token whatever it looks like; a    *)
(* token that is no flag is a positional URL and leaves ydl_opts alone;    *)
(* an unknown flag, or a missing value, raises OptParseError.              *)

OPT_KEY == "VideoDL://options"
PP_KEY == "postprocessors"

Tokens == {"--quiet", "-f", "best", "-x", "--embed-subs", "--bad-option"}

\* the option keys of ydl_opts that the modelled flags decide
OptKeys == {"quiet", "format", PP_KEY}

\* the order in which yt-dlp lists the postprocessors it builds
PPOrder == <<"FFmpegExtractAudio", "FFmpegEmbedSubtitle", "FFmpegConcat">>

NoFlags == [quiet |-> FALSE, format |-> <<>>, x |-> FALSE, subs |-> FALSE, err |-> FALSE]

IsFlag(tok) == tok \in {"--quiet", "-f", "-x", "--embed-subs", "--bad-option"}

RECURSIVE ParseArgs(_, _, _)
ParseArgs(args, i, acc) ==
    IF i > Len(args) THEN acc
    ELSE LET tok == args[i] IN
         CASE tok = "--quiet" -> ParseArgs(args, i + 1, [acc EXCEPT !.quiet = TRUE])
           [] tok = "-x" -> ParseArgs(args, i + 1, [acc EXCEPT !.x = TRUE])
           [] tok = "--embed-subs" -> ParseArgs(args, i + 1, [acc EXCEPT !.subs = TRUE])
           [] tok = "-f" ->
                IF i + 1 > Len(args) THEN [acc EXCEPT !.err = TRUE]
                ELSE ParseArgs(args, i + 2, [acc EXCEPT !.format = <<args[i + 1]>>])
           [] IsFlag(tok) -> [acc EXCEPT !.err = TRUE]
           [] OTHER -> ParseArgs(args, i + 1, acc)

\* does parse_options(args) raise OptParseError
GrammarError(args) == ParseArgs(args, 1, NoFlags).err

PPList(f) ==
    SelectSeq(PPOrder, LAMBDA p :
        \/ p = "FFmpegExtractAudio" /\ f.x
        \/ p = "FFmpegEmbedSubtitle" /\ f.subs
        \/ p = "FFmpegConcat")

\* parse_options(args).ydl_opts, for args the grammar accepts
parse_options(args) ==
    LET f == ParseArgs(args, 1, NoFlags) IN
    [k \in OptKeys |->
        CASE k = "quiet" -> BoolV(f.quiet)
          [] k = "format" ->
                IF f.format /= <<>> THEN StrV(f.format)
                ELSE IF f.x THEN StrV(<<"bestaudio/best">>)
                ELSE NoneV
          [] OTHER -> ListV(PPList(f))]

\* cli_to_api(args): the options that differ from the defaults, and of the
\* postprocessors only those the defaults do not hold
cli_to_api(args) ==
    LET default_opts == parse_options(<<>>)
        opts == parse_options(args)
        diffKeys == {key \in DOMAIN opts : default_opts[key] /= opts[key]}
    IN  [key \in diffKeys |->
            IF key = PP_KEY
            THEN ListV(SelectSeq(opts[key].items,
                     LAMBDA pp : pp \notin Range(default_opts[PP_KEY].items)))
            ELSE opts[key]]

----------------------------------------------------------------------------
(* Program.interpret_options.  The call works on the mapping object it is  *)
(* given: `opts` is that object before the call, the outcome's `options`   *)
(* the same object after it.  The return value is                          *)
(*   "same"  : the mapping object itself (the one handed in; for           *)
(*             read_options the dictionary it loaded or made)              *)
(*   "chain" : collections.ChainMap over maps, each a reference: "options" *)
(*             is the object handed in, "parsed" the dictionary `parsed`   *)
(*   "none"  : None                                                        *)
(*   "value" : an object that is no mapping (what: its type)               *)
(*   "raise" : an exception left the call (what: its class)                *)

Returned(kind, maps, parsed, what) ==
    [kind |-> kind, maps |-> maps, parsed |-> parsed, what |-> what]

RetSame == Returned("same", <<>>, EmptyMap, "")
RetRaise(exc) == Returned("raise", <<>>, EmptyMap, exc)
RetNone == Returned("none", <<>>, EmptyMap, "")
RetValue(type) == Returned("value", <<>>, EmptyMap, type)
NoRet == Returned("", <<>>, EmptyMap, "")

\* collections.ChainMap(first, second)
ChainMap(first, second, parsed) == Returned("chain", <<first, second>>, parsed, "")

Outcome(opts, r, lg) == [options |-> opts, ret |-> r, log |-> lg]

LayeredDeltaFirst(parsed) == ChainMap("parsed", "options", parsed)

\* collections.ChainMap(options, parsed): the mapping handed in comes first
Layered(parsed) == ChainMap("options", "parsed", parsed)

ReplacePostprocessors(o1, parsed) == MapSet(o1, PP_KEY, parsed[PP_KEY])

\* options["postprocessors"].extend(parsed["postprocessors"]), in place
ExtendPostprocessors(o1, parsed) ==
    MapSet(o1, PP_KEY, ListV(o1[PP_KEY].items \o parsed[PP_KEY].items))

interpret_options(opts, lg) ==
    LET array == MapGet(opts, OPT_KEY) IN
    IF Truthy(array)
    THEN IF ~IsList(array)
         THEN Outcome(opts, RetSame,
                  Append(lg, LogRec("WARNING", "found key %s, but value is not an array",
                                    <<OPT_KEY>>)))
         ELSE IF GrammarError(array.items)
         THEN Outcome(opts, RetRaise("OptParseError"), lg)
         ELSE LET parsed == cli_to_api(array.items)
                  lg2 == Append(lg, LogRec("DEBUG", "parsed options %s", <<"parsed">>))
              IN  IF PP_KEY \in DOMAIN parsed
                  THEN LET o1 == IF PP_KEY \in DOMAIN opts THEN opts
                                 ELSE MapSet(opts, PP_KEY, ListV(<<>>))
                       IN  IF ~IsList(o1[PP_KEY])
                           THEN Outcome(o1, RetRaise("AttributeError"), lg2)
                           ELSE Outcome(ExtendPostprocessors(o1, parsed),
                                        Layered(parsed), lg2)
                  ELSE Outcome(opts, Layered(parsed), lg2)
    ELSE Outcome(opts, RetSame, lg)

\* ChainMap.__contains__ / __getitem__: the first map that holds the key
\* answers.  `obj` is the current state of the object "options" refers to.
RefMap(r, obj, ref) == IF ref = "options" THEN obj ELSE r.parsed

ResultKeys(r, obj) ==
    IF r.kind = "chain" THEN UNION {DOMAIN RefMap(r, obj, r.maps[i]) : i \in 1..Len(r.maps)}
    ELSE DOMAIN obj

RECURSIVE ChainGet(_, _, _, _)
ChainGet(r, obj, key, i) ==
    IF i > Len(r.maps) THEN NoneV
    ELSE IF key \in DOMAIN RefMap(r, obj, r.maps[i]) THEN RefMap(r, obj, r.maps[i])[key]
    ELSE ChainGet(r, obj, key, i + 1)

\* result[key] for a key the result holds
ResultGet(r, obj, key) ==
    IF r.kind = "chain" THEN ChainGet(r, obj, key, 1) ELSE obj[key]

----------------------------------------------------------------------------
(* Program.read_options.  A document is what the file holds: whether       *)
(* json.load and yaml.load accept it, and the object they build (top: its  *)
(* type; map: its items when it is a mapping).  A loader that rejects the  *)
(* text returns None (_load_json, _load_yaml).                             *)

Doc(json, yaml, top, m) == [json |-> json, yaml |-> yaml, top |-> top, map |-> m]

NoDoc == Doc(FALSE, FALSE, "null", EmptyMap)

_load_json(doc) == IF doc.json THEN [top |-> doc.top, map |-> doc.map]
                   ELSE [top |-> "null", map |-> EmptyMap]

_load_yaml(doc) == IF doc.yaml THEN [top |-> doc.top, map |-> doc.map]
                   ELSE [top |-> "null", map |-> EmptyMap]

RECURSIVE EndsWith(_, _)
EndsWith(text, suffix) ==
    IF suffix = <<>> THEN TRUE
    ELSE IF text = <<>> THEN FALSE
    ELSE /\ text[Len(text)] = suffix[Len(suffix)]
         /\ EndsWith(SubSeq(text, 1, Len(text) - 1), SubSeq(suffix, 1, Len(suffix) - 1))

\* any(fnmatch.fnmatch(o_path, pattern) for pattern in ("*.yaml", "*.yml"))
file_is_yaml(o_path) ==
    \/ EndsWith(o_path, <<".", "y", "a", "m", "l">>)
    \/ EndsWith(o_path, <<".", "y", "m", "l">>)

OPTIONS_FILE == "OptionsFile"

OpenFailedAsUnset(lg) == Outcome(EmptyMap, RetSame, lg)

\* except OSError: logger.exception(...); return None
OpenFailed(lg) ==
    Outcome(EmptyMap, RetNone,
        Append(lg, LogRec("ERROR", "can't read options file: %s", <<"err">>)))

read_options(m, file, yaml, interp, lg) ==
    LET o_path == IF OPTIONS_FILE \in DOMAIN m THEN m[OPTIONS_FILE] ELSE <<>> IN
    IF o_path = <<>> THEN Outcome(EmptyMap, RetSame, lg)
    ELSE
    LET is_yaml == file_is_yaml(o_path)
        lg1 == IF is_yaml /\ ~yaml
               THEN Append(lg, LogRec("WARNING",
                        "YAML file %s given, but PyYAML is not installed", <<"o_path">>))
               ELSE lg
        loaded == IF is_yaml /\ yaml THEN _load_yaml(file.doc) ELSE _load_json(file.doc)
    IN  IF ~file.readable THEN OpenFailed(lg1)
        ELSE IF loaded.top = "null"
        THEN Outcome(EmptyMap, RetNone,
                 Append(lg1, LogRec("ERROR", "unable to parse options file: %s", <<"o_path">>)))
        ELSE IF interp
        THEN IF loaded.top /= "dict"
             THEN Outcome(EmptyMap, RetRaise("AttributeError"), lg1)
             ELSE LET o == interpret_options(loaded.map, lg1) IN
                  IF o.ret.kind = "raise" /\ o.ret.what = "OptParseError"
                  THEN Outcome(o.options, RetNone,
                           Append(o.log, LogRec("ERROR", "error parsing options array", <<>>)))
                  ELSE o
        ELSE IF loaded.top = "dict" THEN Outcome(loaded.map, RetSame, lg1)
        ELSE Outcome(EmptyMap, RetValue(loaded.top), lg1)

----------------------------------------------------------------------------
(* Duration.parse_string and Program.parse_interval.  A text is a sequence *)
(* of characters.  float() is modelled on the characters the model's texts *)
(* are made of: blanks are stripped, then an optional sign and either      *)
(* decimal digits or "inf"/"nan"; anything else is a ValueError.  Seconds  *)
(* are whole numbers here (no text of the model holds a decimal point).    *)

\* threading.TIMEOUT_MAX in whole seconds; the platform sets it, this is
\* its value on Windows builds (4294967.295), the smallest there is
TIMEOUT_MAX == 4294967

Digits == <<"0", "1", "2", "3", "4", "5", "6", "7", "8", "9">>

IsDigit(c) == \E d \in 1..10 : Digits[d] = c

DigitValue(c) == (CHOOSE d \in 1..10 : Digits[d] = c) - 1

RECURSIVE Strip(_)
Strip(text) ==
    IF text = <<>> THEN text
    ELSE IF Head(text) = " " THEN Strip(Tail(text))
    ELSE IF text[Len(text)] = " " THEN Strip(SubSeq(text, 1, Len(text) - 1))
    ELSE text

RECURSIVE Decimal(_)
Decimal(digits) ==
    IF digits = <<>> THEN 0
    ELSE 10 * Decimal(SubSeq(digits, 1, Len(digits) - 1)) + DigitValue(digits[Len(digits)])

Float(ok, kind, val) == [ok |-> ok, kind |-> kind, val |-> val]

\* float(text): ok is FALSE where float() raises ValueError
float(text) ==
    LET t == Strip(text)
        neg == t /= <<>> /\ Head(t) = "-"
        body == IF t /= <<>> /\ Head(t) \in {"-", "+"} THEN Tail(t) ELSE t
    IN  IF body = <<"i", "n", "f">> THEN Float(TRUE, IF neg THEN "-inf" ELSE "inf", 0)
        ELSE IF body = <<"n", "a", "n">> THEN Float(TRUE, "nan", 0)
        ELSE IF body /= <<>> /\ \A i \in 1..Len(body) : IsDigit(body[i])
        THEN Float(TRUE, "num", IF neg THEN 0 - Decimal(body) ELSE Decimal(body))
        ELSE Float(FALSE, "", 0)

parse_string_unchecked(seconds) == [ok |-> float(seconds).ok, dur |-> float(seconds).val]

\* Duration.parse_string: ok is FALSE where it raises ValueError
parse_string(seconds) ==
    LET dur == float(seconds) IN
    IF dur.ok /\ dur.kind = "num" /\ 0 <= dur.val /\ dur.val <= TIMEOUT_MAX
    THEN [ok |-> TRUE, dur |-> dur.val]
    ELSE [ok |-> FALSE, dur |-> 0]

\* text.split(sep): the fields between the separators, empty ones kept
RECURSIVE Split(_, _)
Split(text, sep) ==
    IF \A i \in 1..Len(text) : text[i] /= sep THEN <<text>>
    ELSE LET i == CHOOSE j \in 1..Len(text) :
                      text[j] = sep /\ \A k \in 1..(j - 1) : text[k] /= sep
         IN  <<SubSeq(text, 1, i - 1)>> \o Split(SubSeq(text, i + 1, Len(text)), sep)

TimeInterval(lower, upper) == [lower |-> lower, upper |-> upper]

\* next(argv, Duration(0.0)) at position i
NextOr0(durations, i) == IF i <= Len(durations) THEN durations[i] ELSE 0

FromDurationsUpperFirst(durations) ==
    IF Len(durations) = 1 THEN TimeInterval(0, durations[1])
    ELSE TimeInterval(NextOr0(durations, 1), NextOr0(durations, 2))

\* lower = next(argv, 0); upper = next(argv, 0); TimeInterval(lower, upper)
FromDurations(durations) == TimeInterval(NextOr0(durations, 1), NextOr0(durations, 2))

Value(v, lg) == [value |-> v, log |-> lg]

parse_interval(m, key, lg) ==
    LET value == IF key \in DOMAIN m THEN m[key] ELSE <<>> IN
    IF value = <<>> THEN Value(TimeInterval(0, 0), lg)
    ELSE LET fields == Split(value, ",")
             parsed == [i \in 1..Len(fields) |-> parse_string(fields[i])]
         IN  IF \E i \in 1..Len(fields) : ~parsed[i].ok
             THEN Value(TimeInterval(0, 0),
                      Append(lg, LogRec("WARNING", "invalid argument to %s: %s",
                                        <<key, value>>)))
             ELSE Value(FromDurations([i \in 1..Len(fields) |-> parsed[i].dur]), lg)

----------------------------------------------------------------------------
(* Program.get_boolean over configparser's getboolean: an absent key gives *)
(* the fallback; a value is looked up, in lower case, in BOOLEAN_STATES;   *)
(* any other value raises ValueError, which get_boolean logs.              *)

Upper(c) ==
    CASE c = "a" -> "A" [] c = "e" -> "E" [] c = "f" -> "F" [] c = "l" -> "L"
      [] c = "n" -> "N" [] c = "o" -> "O" [] c = "r" -> "R" [] c = "s" -> "S"
      [] c = "t" -> "T" [] c = "u" -> "U" [] c = "y" -> "Y" [] OTHER -> c

LowerCaseLetters == {"a", "e", "f", "l", "n", "o", "r", "s", "t", "u", "y"}

\* str.lower(), character by character
LowerChar(c) == IF \E l \in LowerCaseLetters : Upper(l) = c
                THEN CHOOSE l \in LowerCaseLetters : Upper(l) = c
                ELSE c

Lower(text) == [i \in 1..Len(text) |-> LowerChar(text[i])]

\* configparser.RawConfigParser.BOOLEAN_STATES
TrueStates == {<<"1">>, <<"y", "e", "s">>, <<"t", "r", "u", "e">>, <<"o", "n">>}
FalseStates == {<<"0">>, <<"n", "o">>, <<"f", "a", "l", "s", "e">>, <<"o", "f", "f">>}

\* str(default), as the warning prints it
PyStr(b) == IF b THEN "True" ELSE "False"

WarnBooleanBare(key, value, default) ==
    LogRec("WARNING", "unrecognized boolean value for %s", <<key>>)

\* the warning of get_boolean: key, offending value, default
WarnBoolean(key, value, default) ==
    LogRec("WARNING", "unrecognized boolean value for %s: '%s' (defaulting to %s)",
           <<key, value, PyStr(default)>>)

get_boolean(m, key, default, lg) ==
    IF key \notin DOMAIN m THEN Value(default, lg)
    ELSE IF Lower(m[key]) \in TrueStates THEN Value(TRUE, lg)
    ELSE IF Lower(m[key]) \in FalseStates THEN Value(FALSE, lg)
    ELSE Value(default, Append(lg, WarnBoolean(key, m[key], default)))

----------------------------------------------------------------------------
(* interpret_options on its own: one call on a mapping drawn from          *)
(* BaseMappings.                                                           *)

Absent == [kind |-> "absent", items |-> <<>>]

\* the mapping of the keys given a value
MkMap(cand) == [k \in {c \in DOMAIN cand : cand[c] /= Absent} |-> cand[k]]

\* values of the sentinel key that are no list
NonListValues ==
    {StrV(<<>>), StrV(<<"--quiet">>), IntV("0"), IntV("5"), DictV(<<>>),
     DictV(<<"a">>), NoneV, BoolV(FALSE), BoolV(TRUE)}

SentinelValues ==
    {Absent} \cup {ListV(a) : a \in SeqsUpTo(Tokens, MaxTokens)} \cup NonListValues

BaseMappings ==
    {MkMap([k \in {"format", "quiet", PP_KEY, OPT_KEY} |->
              CASE k = "format" -> f [] k = "quiet" -> q [] k = PP_KEY -> p [] OTHER -> s]) :
        f \in {Absent, StrV(<<"worst">>)},
        q \in {Absent, BoolV(FALSE)},
        p \in {Absent, ListV(<<>>), ListV(<<"SponsorBlock">>), NoneV},
        s \in SentinelValues}

\* the variables an operation does not use
IdleOptions == options = EmptyMap /\ given = EmptyMap
IdleDisk == disk = [readable |-> FALSE, doc |-> NoDoc] /\ interpret = FALSE
IdleFile == IdleDisk /\ has_yaml = FALSE
IdleMap == map = EmptyMap
IdleCall == call = [op |-> "", key |-> "", default |-> FALSE]
IdleClock == clock = [now |-> 0, start |-> 0, begun |-> 0]
IdleMain ==
    /\ config = <<>> /\ job_identifiers = <<>> /\ cursor = 0
    /\ jobs = <<>> /\ handlers = EmptyMap /\ events = <<>>
    /\ files_read = "read" /\ cli_args = [sleep |-> 0] /\ IdleClock /\ exit_status = -1

InitOptions ==
    /\ pc = "interpret_options"
    /\ IdleFile /\ IdleMap /\ IdleCall /\ IdleMain
    /\ options \in BaseMappings
    /\ given = options
    /\ ret = NoRet
    /\ log = <<>>

InterpretOptionsCall ==
    /\ pc = "interpret_options"
    /\ LET o == interpret_options(options, log) IN
        /\ options' = o.options
        /\ ret' = o.ret
        /\ log' = o.log
        /\ pc' = IF o.ret.kind = "raise" THEN "raised" ELSE "returned"
    /\ UNCHANGED <<given, map, disk, has_yaml, interpret, call, mainVars>>

NextOptions == InterpretOptionsCall

SpecOptions == InitOptions /\ [][NextOptions]_vars

----------------------------------------------------------------------------
(* Claims about interpret_options, under SpecOptions *)

HasWarning(lg) == \E i \in 1..Len(lg) : lg[i].level = "WARNING"

GivenArray == MapGet(given, OPT_KEY)

\* C1 (as claimed): after interpret_options returns for a mapping whose
\* sentinel key holds a list, the mapping object has the same keys and
\* values as before the call.
C1_BaseUnmodified ==
    (pc = "returned" /\ IsList(GivenArray)) => options = given

\* C2 (as claimed): in the layered result the delta answers before the
\* base: a key other than "postprocessors" held by both yields the delta's
\* value, a key held only by the base yields the base's value.
C2_DeltaFirst ==
    (pc = "returned" /\ ret.kind = "chain") =>
        \A key \in DOMAIN given :
            IF key \in DOMAIN ret.parsed \ {PP_KEY}
            THEN ResultGet(ret, options, key) = ret.parsed[key]
            ELSE key /= PP_KEY => ResultGet(ret, options, key) = given[key]

\* C2 (amended): in the layered result the base answers before the delta:
\* a key held by both yields the base's value, a key held only by the base
\* yields the base's value, a key held only by the delta the delta's value.
C2_BaseFirst ==
    (pc = "returned" /\ ret.kind = "chain") =>
        /\ \A key \in DOMAIN given \ {PP_KEY} :
               ResultGet(ret, options, key) = given[key]
        /\ \A key \in DOMAIN ret.parsed \ (DOMAIN given \cup {PP_KEY}) :
               ResultGet(ret, options, key) = ret.parsed[key]

\* a key other than "postprocessors" held by both, with different values
C2_Witness ==
    /\ pc = "returned" /\ ret.kind = "chain"
    /\ \E key \in (DOMAIN given \cap DOMAIN ret.parsed) \ {PP_KEY} :
           given[key] /= ret.parsed[key]
    /\ \E key \in DOMAIN ret.parsed \ (DOMAIN given \cup {PP_KEY}) : TRUE

\* C9 (as claimed): when the sentinel key is present and its value is no
\* list, interpret_options emits a warning and returns the mapping handed
\* in, unchanged.
C9_NonListWarns ==
    (pc \in {"returned", "raised"} /\ OPT_KEY \in DOMAIN given /\ ~IsList(GivenArray)) =>
        /\ ret = RetSame
        /\ options = given
        /\ HasWarning(log)

GivenPostprocessors ==
    IF PP_KEY \in DOMAIN given THEN given[PP_KEY].items ELSE <<>>

\* C10: when the delta holds "postprocessors", the result's "postprocessors"
\* is the base's original list (empty when the key was absent) followed by
\* the delta's elements in order.
C10_PostprocessorsAppended ==
    (pc = "returned" /\ ret.kind = "chain" /\ PP_KEY \in DOMAIN ret.parsed) =>
        ResultGet(ret, options, PP_KEY) =
            ListV(GivenPostprocessors \o ret.parsed[PP_KEY].items)

\* a non-empty file-provided list met a non-empty delta
C10_Witness ==
    /\ pc = "returned" /\ ret.kind = "chain" /\ PP_KEY \in DOMAIN ret.parsed
    /\ GivenPostprocessors /= <<>>
    /\ Len(ret.parsed[PP_KEY].items) = 2

----------------------------------------------------------------------------
(* read_options on its own: one call, for a section whose OptionsFile key  *)
(* is absent, empty or names a file, and a file system that refuses the    *)
(* file or holds one of OptionDocs.                                        *)

OptionPaths ==
    {<<>>, <<"o">>, <<"o", ".", "j", "s", "o", "n">>, <<"o", ".", "y", "a", "m", "l">>,
     <<"o", ".", "y", "m", "l">>}

\* the mappings an options file may hold
DocMappings == {m \in BaseMappings : DOMAIN m \subseteq {OPT_KEY, PP_KEY}}

OptionDocs ==
    {NoDoc,                                   \* text no loader accepts
     Doc(FALSE, TRUE, "null", EmptyMap),      \* an empty file
     Doc(TRUE, TRUE, "null", EmptyMap),       \* null
     Doc(TRUE, TRUE, "list", EmptyMap),       \* an array
     Doc(FALSE, TRUE, "str", EmptyMap)}       \* plain words: a YAML scalar
    \cup {Doc(TRUE, TRUE, "dict", m) : m \in DocMappings}
    \cup {Doc(FALSE, TRUE, "dict", m) : m \in DocMappings}

DiskStates ==
    {[readable |-> FALSE, doc |-> NoDoc]} \cup {[readable |-> TRUE, doc |-> d] : d \in OptionDocs}

OptionsFileMaps ==
    {EmptyMap} \cup {[k \in {OPTIONS_FILE} |-> path] : path \in OptionPaths}

InitReadOptions ==
    /\ pc = "read_options"
    /\ IdleOptions /\ IdleCall /\ IdleMain
    /\ map \in OptionsFileMaps
    /\ disk \in DiskStates
    /\ has_yaml \in BOOLEAN
    /\ interpret \in BOOLEAN
    /\ ret = NoRet
    /\ log = <<>>

ReadOptionsCall ==
    /\ pc = "read_options"
    /\ LET o == read_options(map, disk, has_yaml, interpret, log) IN
        /\ options' = o.options
        /\ ret' = o.ret
        /\ log' = o.log
        /\ pc' = IF o.ret.kind = "raise" THEN "raised" ELSE "returned"
    /\ UNCHANGED <<given, map, disk, has_yaml, interpret, call, mainVars>>

NextReadOptions == ReadOptionsCall

SpecReadOptions == InitReadOptions /\ [][NextReadOptions]_vars

----------------------------------------------------------------------------
(* Claims about read_options, under SpecReadOptions *)

Finished == pc \in {"returned", "raised"}

ConfiguredPath == IF OPTIONS_FILE \in DOMAIN map THEN map[OPTIONS_FILE] ELSE <<>>

\* the loader read_options picks rejects the text of the document
Rejects(path, yaml, doc) ==
    IF file_is_yaml(path) /\ yaml THEN ~doc.yaml ELSE ~doc.json

\* which of the three cases the call is in ("other": a file that loads)
FileCase ==
    CASE ConfiguredPath = <<>> -> "unset"
      [] ~disk.readable -> "io"
      [] Rejects(ConfiguredPath, has_yaml, disk.doc) -> "malformed"
      [] OTHER -> "other"

LastLog == log[Len(log)]

\* C4 (as claimed): no file configured gives an empty mapping and no error,
\* and the value returned for a missing or unreadable file differs from the
\* value returned for any malformed file.
C4_IoDiffersFromParse ==
    Finished =>
        /\ FileCase = "unset" => ret = RetSame /\ options = EmptyMap /\ log = <<>>
        /\ FileCase = "io" =>
              \A d \in OptionDocs :
                  Rejects(ConfiguredPath, has_yaml, d) =>
                      ret /= read_options(map, [readable |-> TRUE, doc |-> d],
                                          has_yaml, interpret, <<>>).ret

\* C4 (amended): no file configured gives an empty mapping and no error; a
\* missing or unreadable file and a malformed file both give None, the same
\* value for the caller, and differ only in the error that is logged.
C4_Outcomes ==
    Finished =>
        /\ FileCase = "unset" => ret = RetSame /\ options = EmptyMap /\ log = <<>>
        /\ FileCase = "io" =>
              /\ ret = RetNone
              /\ LastLog = LogRec("ERROR", "can't read options file: %s", <<"err">>)
        /\ FileCase = "malformed" =>
              /\ ret = RetNone
              /\ LastLog = LogRec("ERROR", "unable to parse options file: %s", <<"o_path">>)

\* a configured file that cannot be opened
C4_Witness == pc = "returned" /\ FileCase = "io" /\ ret = RetNone

----------------------------------------------------------------------------
(* The scalar parsers on their own: one call of parse_interval or of       *)
(* get_boolean on a section that holds, or lacks, the key.                 *)

SLEEP_INTERVAL == "SleepInterval"
SHUFFLE_SOURCE == "ShuffleSource"

\* texts of a single field: empty, valid durations (one with a leading
\* blank), a negative, a non-number, an infinite one
FieldTexts ==
    {<<>>, <<"0">>, <<"6">>, <<" ", "7">>, <<"1", "5">>, <<"-", "1">>, <<"8", "a">>,
     <<"i", "n", "f">>}

RECURSIVE JoinFields(_)
JoinFields(fields) ==
    IF Len(fields) = 1 THEN fields[1]
    ELSE fields[1] \o <<",">> \o JoinFields(Tail(fields))

IntervalTexts ==
    {JoinFields(fs) : fs \in UNION {[1..n -> FieldTexts] : n \in 1..MaxFields}}

\* every way of writing a lower-case token in upper and lower case
Casings(token) ==
    {t \in [1..Len(token) -> {token[i] : i \in 1..Len(token)}
                             \cup {Upper(token[i]) : i \in 1..Len(token)}] :
        \A i \in 1..Len(token) : t[i] \in {token[i], Upper(token[i])}}

TrueTokens == {<<"1">>, <<"o", "n">>, <<"t", "r", "u", "e">>, <<"y", "e", "s">>}
FalseTokens == {<<"0">>, <<"o", "f", "f">>, <<"f", "a", "l", "s", "e">>, <<"n", "o">>}

TrueTexts == UNION {Casings(t) : t \in TrueTokens}
FalseTexts == UNION {Casings(t) : t \in FalseTokens}

OtherTexts ==
    {<<>>, <<"2">>, <<"s", "e", "t">>, <<"u", "n", "s", "e", "t">>, <<" ", "y", "e", "s">>,
     <<"y">>, <<"T", "r", "u">>, <<"o", "n", "n">>, <<"1", "0">>}

BooleanTexts == TrueTexts \cup FalseTexts \cup OtherTexts

InitInterval ==
    /\ pc = "parse_interval"
    /\ call = [op |-> "parse_interval", key |-> SLEEP_INTERVAL, default |-> FALSE]
    /\ map \in {EmptyMap} \cup {[k \in {SLEEP_INTERVAL} |-> v] : v \in IntervalTexts}

InitBoolean ==
    /\ pc = "get_boolean"
    /\ \E d \in BOOLEAN : call = [op |-> "get_boolean", key |-> SHUFFLE_SOURCE, default |-> d]
    /\ map \in {EmptyMap} \cup {[k \in {SHUFFLE_SOURCE} |-> v] : v \in BooleanTexts}

InitParsers ==
    /\ IdleOptions /\ IdleFile /\ IdleMain
    /\ ret = NoRet
    /\ log = <<>>
    /\ (InitInterval \/ InitBoolean)

ParseIntervalCall ==
    /\ pc = "parse_interval"
    /\ LET o == parse_interval(map, call.key, log) IN
        /\ ret' = o.value
        /\ log' = o.log
    /\ pc' = "returned"
    /\ UNCHANGED <<options, given, map, disk, has_yaml, interpret, call, mainVars>>

GetBooleanCall ==
    /\ pc = "get_boolean"
    /\ LET o == get_boolean(map, call.key, call.default, log) IN
        /\ ret' = o.value
        /\ log' = o.log
    /\ pc' = "returned"
    /\ UNCHANGED <<options, given, map, disk, has_yaml, interpret, call, mainVars>>

NextParsers == ParseIntervalCall \/ GetBooleanCall

SpecParsers == InitParsers /\ [][NextParsers]_vars

----------------------------------------------------------------------------
(* Claims about parse_interval and get_boolean, under SpecParsers *)

IntervalReturned == pc = "returned" /\ call.op = "parse_interval"

\* the raw value of the key, and its comma-separated fields
RawValue == IF call.key \in DOMAIN map THEN map[call.key] ELSE <<>>
RawFields == Split(RawValue, ",")

\* the text of a duration: after the blanks, an optional sign and decimal
\* digits that spell a number of seconds from 0 to the largest sleep
IsDurationText(text) ==
    LET t == Strip(text)
        body == IF t /= <<>> /\ Head(t) \in {"-", "+"} THEN Tail(t) ELSE t
    IN  /\ body /= <<>>
        /\ \A i \in 1..Len(body) : IsDigit(body[i])
        /\ Decimal(body) <= TIMEOUT_MAX
        /\ Head(t) = "-" => Decimal(body) = 0

SecondsOf(text) ==
    LET t == Strip(text) IN Decimal(IF Head(t) \in {"-", "+"} THEN Tail(t) ELSE t)

ValidField(i) == i <= Len(RawFields) /\ IsDurationText(RawFields[i])
FieldDuration(i) == SecondsOf(RawFields[i])

\* C5 (as claimed): with three or more fields of which the first two are
\* valid durations a and b, parse_interval returns TimeInterval(a, b) and
\* emits no warning, whatever the later fields hold.
C5_LaterFieldsIgnored ==
    (IntervalReturned /\ RawValue /= <<>> /\ Len(RawFields) >= 3
        /\ ValidField(1) /\ ValidField(2)) =>
        /\ ret = TimeInterval(FieldDuration(1), FieldDuration(2))
        /\ log = <<>>

\* C6 (as claimed): a single valid duration field f gives the interval
\* (0, f).
C6_SingleFieldUpper ==
    (IntervalReturned /\ RawValue /= <<>> /\ Len(RawFields) = 1 /\ ValidField(1)) =>
        ret = TimeInterval(0, FieldDuration(1))

\* C6 (amended): a single valid duration field f gives the interval (f, 0):
\* lower bound f, upper bound 0; nothing is logged.
C6_SingleFieldLower ==
    (IntervalReturned /\ RawValue /= <<>> /\ Len(RawFields) = 1 /\ ValidField(1)) =>
        /\ ret = TimeInterval(FieldDuration(1), 0)
        /\ log = <<>>

\* a single positive field came back
C6_Witness ==
    /\ IntervalReturned /\ RawValue /= <<>> /\ Len(RawFields) = 1 /\ ValidField(1)
    /\ FieldDuration(1) > 0
    /\ ret.lower > 0

\* C7: when the first or the second field is no valid duration,
\* parse_interval returns TimeInterval(0, 0) and emits one warning that
\* names the key and the raw value.
C7_InvalidFieldFallsBack ==
    (IntervalReturned /\ RawValue /= <<>>
        /\ (~ValidField(1) \/ (Len(RawFields) >= 2 /\ ~ValidField(2)))) =>
        /\ ret = TimeInterval(0, 0)
        /\ log = <<LogRec("WARNING", "invalid argument to %s: %s", <<call.key, RawValue>>)>>

\* a valid first field followed by a comma and nothing (as in " 3,")
C7_Witness ==
    /\ IntervalReturned /\ RawValue /= <<>>
    /\ Len(RawFields) = 2 /\ ValidField(1) /\ FieldDuration(1) > 0 /\ RawFields[2] = <<>>
    /\ ret = TimeInterval(0, 0)

BooleanReturned == pc = "returned" /\ call.op = "get_boolean"

\* the warning's text holds the key, the value and the default
NamesAll(rec) ==
    /\ rec.level = "WARNING"
    /\ Len(rec.args) = 3
    /\ rec.args[1] = call.key
    /\ rec.args[2] = RawValue
    /\ rec.args[3] = PyStr(call.default)

\* C8: get_boolean returns True for 1/on/true/yes and False for
\* 0/off/false/no in any letter case; for a missing key the default and no
\* warning; for any other non-empty value the default and a warning whose
\* text holds the key, the value and the default.
C8_GetBoolean ==
    BooleanReturned =>
        /\ call.key \notin DOMAIN map => ret = call.default /\ log = <<>>
        /\ (call.key \in DOMAIN map /\ RawValue \in TrueTexts) => ret = TRUE /\ log = <<>>
        /\ (call.key \in DOMAIN map /\ RawValue \in FalseTexts) => ret = FALSE /\ log = <<>>
        /\ (call.key \in DOMAIN map /\ RawValue /= <<>>
               /\ RawValue \notin TrueTexts \cup FalseTexts) =>
              /\ ret = call.default
              /\ Len(log) = 1 /\ NamesAll(log[1])

\* an unrecognised value met the default True
C8_Witness ==
    /\ BooleanReturned /\ call.key \in DOMAIN map /\ call.default
    /\ RawValue = <<"s", "e", "t">>
    /\ ret = TRUE /\ Len(log) = 1

----------------------------------------------------------------------------
(* parse_config and the job loop of main.  A section is its name, its map  *)
(* (keys and texts) and what the file system holds at the paths it names:  *)
(*   fs.subdir  : "ok", "unwritable" (os.access fails) or "notdir"         *)
(*   fs.source  : whether open() succeeds, and the URLs of the batch file  *)
(*   fs.options : the options file (as `disk` above)                       *)
(* No section of the model sets Log, DateStart or DateEnd.  The clock is   *)
(* read in whole ticks: a sleep of p seconds takes p ticks, one engine     *)
(* call takes one tick and reading the configuration takes none.           *)

SUBDIR == "SubDir"
SOURCE == "Source"
DEFAULT_OUTTMPL == <<"%(title)s [%(id)s].%(ext)s">>

\* ExtendedInterpolation: reading a value that refers to an option the
\* section does not define raises InterpolationError, a configparser.Error.
\* The one reference the model's texts hold is ${x}, and no section defines x.
InterpolationFails(text) == Len(text) >= 2 /\ text[1] = "$" /\ text[2] = "{"

\* Program.get_required: found is FALSE where it returns None, raised is
\* TRUE where self.map[key] raises an exception that is no KeyError
get_required(m, key, lg) ==
    IF key \in DOMAIN m
    THEN [found |-> TRUE, raised |-> InterpolationFails(m[key]), value |-> m[key], log |-> lg]
    ELSE [found |-> FALSE, raised |-> FALSE, value |-> <<>>,
          log |-> Append(lg, LogRec("ERROR", "required key not found in section: %s", <<key>>))]

\* Program.read_source: ok is FALSE where it returns None
read_source(m, source, lg) ==
    LET s_path == get_required(m, SOURCE, lg) IN
    IF s_path.raised THEN [ok |-> FALSE, raised |-> TRUE, urls |-> <<>>, log |-> lg]
    ELSE IF ~s_path.found \/ s_path.value = <<>>
    THEN [ok |-> FALSE, raised |-> FALSE, urls |-> <<>>, log |-> s_path.log]
    ELSE IF ~source.readable
    THEN [ok |-> FALSE, raised |-> FALSE, urls |-> <<>>,
          log |-> Append(lg, LogRec("ERROR", "can't read source file: %s", <<"err">>))]
    ELSE [ok |-> TRUE, raised |-> FALSE, urls |-> source.urls,
          log |-> Append(lg, LogRec("DEBUG", "reading batch urls from '%s'", <<"s_path">>))]

\* the orders random.shuffle may leave a list in
Shuffles(urls) ==
    {p \in [1..Len(urls) -> Range(urls)] :
        \A i, j \in 1..Len(urls) : i /= j => p[i] /= p[j]}

\* pathlib: subdir / fragment; an absolute fragment replaces the left side
IsAbsolute(path) == path /= <<>> /\ Head(path) = "/"
JoinPath(subdir, fragment) ==
    IF IsAbsolute(fragment) THEN fragment
    ELSE IF subdir[Len(subdir)] = "/" THEN subdir \o fragment
    ELSE subdir \o <<"/">> \o fragment

\* the element of a one-element set: Only({f(v) : v \in {e}}) is f(e) with
\* e computed once
Only(S) == CHOOSE r \in S : TRUE

\* ydl_opts[key] = value: a ChainMap writes to its first map
SetItem(o, key, value) ==
    Only({IF v.ret.kind = "chain" /\ v.ret.maps[1] = "parsed"
          THEN [v EXCEPT !.ret.parsed = MapSet(@, key, value)]
          ELSE [v EXCEPT !.options = MapSet(@, key, value)] : v \in {o}})

\* ydl_opts.get(key, default)
GetItem(o, key, default) ==
    IF key \in ResultKeys(o.ret, o.options) THEN ResultGet(o.ret, o.options, key) ELSE default

TextV(m, key) == IF key \in DOMAIN m THEN StrV(m[key]) ELSE NoneV

AddHandler(hs, name, h) ==
    [n \in DOMAIN hs \cup {name} |-> IF n = name THEN Append(IF n \in DOMAIN hs THEN hs[n] ELSE <<>>, h)
                                     ELSE hs[n]]

\* records of a Program's logger carry the section's name
Prefixed(section, lg) ==
    Only({[i \in 1..Len(v) |-> [v[i] EXCEPT !.args = <<section>> \o @]] : v \in {lg}})

Skip(lg) == [kind |-> "skip", lg |-> lg]

\* parse_config, lines 427-436: the section passed every check; ydl_opts
\* is what read_options returned, lg what has been logged in this turn
AssembleJob(job, m, subdir, urls, ydl_opts, hs, lg) ==
    LET shuffle == get_boolean(m, "ShuffleSource", FALSE, <<>>)
        debug == get_boolean(m, "DistinguishDebug", FALSE, <<>>)
        interval == parse_interval(m, SLEEP_INTERVAL, <<>>)
        o1 == SetItem(ydl_opts, "download_archive", TextV(m, "DownloadArchive"))
        o2 == SetItem(o1, "logger", [kind |-> "logger", items |-> <<job>>])
        o3 == SetItem(o2, "daterange", [kind |-> "daterange", items |-> <<>>])
        o4 == SetItem(o3, "outtmpl",
                  StrV(JoinPath(subdir, GetItem(ydl_opts, "outtmpl", StrV(DEFAULT_OUTTMPL)).items)))
        o5 == SetItem(o4, "progress_hooks", ListV(<<"progress_hook">>))
    IN  Only({
          [kind |-> "job",
           job |-> [section |-> job, urls |-> urls, view |-> o.ret, options |-> o.options,
                    sleep_interval |-> interval.value],
           lg |-> lg \o Prefixed(job, IF shuffle.value
                                      THEN Append(shuffle.log,
                                               LogRec("DEBUG", "shuffling video queue", <<>>))
                                      ELSE shuffle.log)
                     \o Prefixed(job, debug.log) \o Prefixed(job, interval.log),
           hs |-> AddHandler(hs, job, "console")] : o \in {o5}})

\* parse_config, lines 418-425: the source list and the options file
ReadFiles(job, sec, subdir, yaml, hs, shuffled) ==
    Only({
      IF url_list.raised
      THEN [kind |-> "raise", what |-> "configparser.Error", lg |-> <<>>]
      ELSE IF ~url_list.ok
      THEN Skip(Append(Prefixed(job, url_list.log),
                       LogRec("WARNING", "unable to read source file, skipping %s", <<job>>)))
      ELSE Only({Only({
          IF ydl_opts.ret.kind = "raise"
          THEN [kind |-> "raise", what |-> ydl_opts.ret.what, lg |-> lg]
          ELSE IF ydl_opts.ret.kind = "none"
          THEN Skip(Append(lg, LogRec("WARNING", "unable to read options file, skipping %s",
                                      <<job>>)))
          ELSE AssembleJob(job, sec.map, subdir,
                           IF get_boolean(sec.map, "ShuffleSource", FALSE, <<>>).value
                           THEN shuffled ELSE url_list.urls,
                           ydl_opts, hs, lg)
          : lg \in {Prefixed(job, url_list.log) \o Prefixed(job, ydl_opts.log)}})
        : ydl_opts \in {read_options(sec.map, sec.fs.options, yaml, TRUE, <<>>)}})
      : url_list \in {read_source(sec.map, sec.fs.source, <<>>)}})

\* One turn of parse_config's loop for identifier `job`.  kind is "skip"
\* (continue), "job" (a Job is yielded) or "raise" (an exception leaves
\* the generator); lg holds the records logged, hs the handlers after.
\* `shuffled` is the order random.shuffle leaves, should it be called.
ProcessSection(cfg, job, yaml, hs, shuffled) ==
    IF \A i \in 1..Len(cfg) : cfg[i].name /= job
    THEN Skip(<<LogRec("ERROR", "no config section found with name: %s", <<job>>)>>)
    ELSE
    LET sec == cfg[CHOOSE i \in 1..Len(cfg) : cfg[i].name = job]
        subdir_val == get_required(sec.map, SUBDIR, <<>>)
    IN
    IF subdir_val.raised THEN [kind |-> "raise", what |-> "configparser.Error", lg |-> <<>>]
    ELSE IF ~subdir_val.found \/ subdir_val.value = <<>> THEN Skip(Prefixed(job, subdir_val.log))
    ELSE IF sec.fs.subdir = "unwritable"
    THEN Skip(<<LogRec("WARNING", "path is not writable, skipping %s: %s", <<job, "subdir">>)>>)
    ELSE IF sec.fs.subdir = "notdir"
    THEN Skip(<<LogRec("WARNING", "path is not a directory, skipping %s: %s", <<job, "subdir">>)>>)
    ELSE ReadFiles(job, sec, subdir_val.value, yaml, hs, shuffled)

\* config.sections(), whatever the command line names
SelectedAllSections == [i \in 1..Len(config) |-> config[i].name]

\* job_identifiers or config.sections()
Selected == IF job_identifiers /= <<>> THEN job_identifiers
            ELSE [i \in 1..Len(config) |-> config[i].name]

\* TimeInterval.random_duration: random.uniform(lower, upper), on whole seconds
random_duration(interval) ==
    IF interval.lower <= interval.upper THEN interval.lower..interval.upper
    ELSE interval.upper..interval.lower

----------------------------------------------------------------------------
(* The run: parse_config over the selected identifiers, then the job loop  *)
(* of main.                                                                *)

SectionNames == <<"s1", "s2", "s3", "s4">>

NoDisk == [readable |-> FALSE, doc |-> NoDoc]
JsonPath == <<"o", ".", "j", "s", "o", "n">>
YamlPath == <<"o", ".", "y", "a", "m", "l">>

GoodMap == [k \in {SUBDIR, SOURCE} |-> IF k = SUBDIR THEN <<"/", "d">> ELSE <<"/", "s">>]

GoodFs == [subdir |-> "ok", source |-> [readable |-> TRUE, urls |-> <<"u1", "u2">>],
           options |-> NoDisk]

Without(m, key) == [k \in DOMAIN m \ {key} |-> m[k]]

WithOptions(path, readable, doc) ==
    [map |-> MapSet(GoodMap, OPTIONS_FILE, path),
     fs |-> [GoodFs EXCEPT !.options = [readable |-> readable, doc |-> doc]]]

Sentinel(tokens) == [k \in {OPT_KEY} |-> ListV(tokens)]

\* an options file that sets the output template
Outtmpl(fragment) == [k \in {"outtmpl"} |-> StrV(fragment)]

\* the sections tried: what each holds and what the file system holds for it
SectionKinds ==
    {[map |-> GoodMap, fs |-> GoodFs],
     [map |-> MapSet(GoodMap, SLEEP_INTERVAL, <<"1", ",", "2">>), fs |-> GoodFs],
     [map |-> MapSet(GoodMap, SHUFFLE_SOURCE, <<"y", "e", "s">>), fs |-> GoodFs],
     [map |-> Without(GoodMap, SUBDIR), fs |-> GoodFs],
     [map |-> MapSet(GoodMap, SUBDIR, <<>>), fs |-> GoodFs],
     [map |-> GoodMap, fs |-> [GoodFs EXCEPT !.subdir = "unwritable"]],
     [map |-> GoodMap, fs |-> [GoodFs EXCEPT !.subdir = "notdir"]],
     [map |-> Without(GoodMap, SOURCE), fs |-> GoodFs],
     [map |-> GoodMap, fs |-> [GoodFs EXCEPT !.source.readable = FALSE]],
     WithOptions(JsonPath, FALSE, NoDoc),
     WithOptions(JsonPath, TRUE, NoDoc),
     WithOptions(JsonPath, TRUE, Doc(TRUE, TRUE, "list", EmptyMap)),
     WithOptions(JsonPath, TRUE, Doc(TRUE, TRUE, "dict", Sentinel(<<"--bad-option">>))),
     WithOptions(JsonPath, TRUE, Doc(TRUE, TRUE, "dict", Sentinel(<<"-x">>))),
     WithOptions(YamlPath, TRUE, Doc(FALSE, TRUE, "dict", Sentinel(<<"--quiet">>))),
     [map |-> GoodMap, fs |-> [GoodFs EXCEPT !.source.urls = <<>>]],
     [map |-> MapSet(GoodMap, SUBDIR, <<"$", "{", "x", "}">>), fs |-> GoodFs],
     WithOptions(JsonPath, TRUE, Doc(TRUE, TRUE, "dict", Outtmpl(<<"%", "t">>))),
     WithOptions(JsonPath, TRUE, Doc(TRUE, TRUE, "dict", Outtmpl(<<"/", "v", "/", "%", "t">>)))}

Named(kinds) == [i \in 1..Len(kinds) |-> [name |-> SectionNames[i], map |-> kinds[i].map,
                                          fs |-> kinds[i].fs]]

Configs == {Named(kinds) : kinds \in UNION {[1..n -> SectionKinds] : n \in 1..MaxSections}}

\* the command lines tried: none (all sections), a section twice, an
\* unknown name first, the sections in reverse
IdentifierChoices(cfg) ==
    {<<>>, <<"s1", "s1">>, <<"nosuch", "s1">>}
    \cup {[i \in 1..Len(cfg) |-> cfg[Len(cfg) + 1 - i].name] : x \in {y \in {1} : Len(cfg) > 1}}

\* --sleep SEC as given on the command line (0: not given)
SleepChoices == {0, 1}

Init ==
    /\ pc = "start"
    /\ IdleOptions /\ IdleDisk /\ IdleMap /\ IdleCall
    /\ has_yaml \in BOOLEAN
    /\ files_read \in {"read", "none", "error"}
    /\ config \in (IF files_read = "read" THEN Configs ELSE {<<>>})
    /\ job_identifiers \in (IF files_read = "read" THEN IdentifierChoices(config) ELSE {<<>>})
    /\ cli_args \in (IF files_read = "read" THEN [sleep : SleepChoices] ELSE {[sleep |-> 0]})
    /\ IdleClock
    /\ exit_status = -1
    /\ cursor = 1
    /\ jobs = <<>>
    /\ handlers = EmptyMap
    /\ events = <<>>
    /\ ret = NoRet
    /\ log = <<>>

\* the URLs of the section's batch file (none when there is no such section)
SourceUrls(cfg, job) ==
    IF \E i \in 1..Len(cfg) : cfg[i].name = job
    THEN cfg[CHOOSE i \in 1..Len(cfg) : cfg[i].name = job].fs.source.urls
    ELSE <<>>

\* ev "section": parse_config's turn for identifier number `job` is over
\* (code 1: it yielded a Job, 0: it went on to the next, 2: it raised);
\* ev "sleep": time.sleep(period) for job number `job`, 0 for main's own;
\* ev "download": ydl.download for job number `job` returned `code`
Event(ev, job, period, code) == [ev |-> ev, job |-> job, period |-> period, code |-> code]

unitVars == <<options, given, map, disk, has_yaml, interpret, call, ret>>

\* die(status, msg): log the error and leave with the status
die(status, msg, lg) == [log |-> Append(lg, LogRec("ERROR", msg, <<"err">>)), status |-> status]

\* main, up to the reading of clock_start
Startup ==
    /\ pc = "start"
    /\ IF files_read = "error"
       THEN \E d \in {die(100, "error with configuration file: %s", log)} :
              log' = d.log /\ exit_status' = d.status /\ pc' = "exited"
       ELSE IF files_read = "none"
       THEN \E d \in {die(100, "unable to find configuration file", log)} :
              log' = d.log /\ exit_status' = d.status /\ pc' = "exited"
       ELSE /\ log' = log \o <<LogRec("DEBUG", "config file(s): %s", <<"files_read">>),
                               LogRec("DEBUG", "%s version %s", <<"VideoDL", "version">>)>>
            /\ pc' = "parse_config"
            /\ UNCHANGED exit_status
    /\ clock' = [clock EXCEPT !.start = clock.now, !.begun = clock.now]
    /\ UNCHANGED <<config, job_identifiers, cursor, jobs, handlers, events, files_read,
                   cli_args, unitVars>>

\* where main is after a turn of parse_config
AfterSection(r) ==
    IF r.kind /= "raise" THEN [pc |-> "parse_config", status |-> -1, lg |-> r.lg]
    ELSE IF r.what = "configparser.Error"
    THEN [pc |-> "exited", status |-> 100,
          lg |-> die(100, "error with configuration file: %s", r.lg).log]
    ELSE [pc |-> "crashed", status |-> 1, lg |-> r.lg]

\* parse_config: one turn of the loop
ParseSection ==
    /\ pc = "parse_config"
    /\ cursor <= Len(Selected)
    /\ \E shuffled \in Shuffles(SourceUrls(config, Selected[cursor])) :
         \E r \in {ProcessSection(config, Selected[cursor], has_yaml, handlers, shuffled)} :
         \E a \in {AfterSection(r)} :
         /\ log' = log \o a.lg
         /\ pc' = a.pc
         /\ exit_status' = a.status
         /\ jobs' = IF r.kind = "job" THEN Append(jobs, r.job) ELSE jobs
         /\ handlers' = IF r.kind = "job" THEN r.hs ELSE handlers
         /\ events' = Append(events, Event("section", cursor, 0,
                          CASE r.kind = "job" -> 1 [] r.kind = "skip" -> 0 [] OTHER -> 2))
    /\ cursor' = cursor + 1
    /\ UNCHANGED <<config, job_identifiers, files_read, cli_args, clock, unitVars>>

\* main: parse_config is exhausted, list(...) returns
Queued ==
    /\ pc = "parse_config"
    /\ cursor > Len(Selected)
    /\ log' = Append(log, LogRec("DEBUG", "%d job(s) queued", <<Len(jobs)>>))
    /\ pc' = IF jobs = <<>> THEN "finish" ELSE IF cli_args.sleep /= 0 THEN "main_sleep" ELSE "sleep"
    /\ cursor' = 1
    /\ UNCHANGED <<config, job_identifiers, jobs, handlers, events, files_read, cli_args,
                   clock, exit_status, unitVars>>

\* the clock after time.sleep(period) and clock_start += period
SleptWallClock(c, period) == [c EXCEPT !.now = @ + period]
Slept(c, period) == [c EXCEPT !.now = @ + period, !.start = @ + period]

\* main: the sleep that --sleep asks for, before the first job
MainSleep ==
    /\ pc = "main_sleep"
    /\ \E period \in random_duration(TimeInterval(0, cli_args.sleep)) :
         /\ log' = Append(log, LogRec("INFO", "sleeping for %s before starting", <<period>>))
         /\ events' = Append(events, Event("sleep", 0, period, 0))
         /\ clock' = Slept(clock, period)
    /\ pc' = "sleep"
    /\ UNCHANGED <<config, job_identifiers, cursor, jobs, handlers, files_read, cli_args,
                   exit_status, unitVars>>

\* Job.random_sleep with the period drawn: what it logs, whether it sleeps,
\* what it returns
random_sleep_always(section, period) ==
    [sleeps |-> TRUE, returned |-> period,
     log |-> <<LogRec("INFO", "sleeping for %s before starting", <<section, period>>)>>]

random_sleep(section, period) ==
    IF period <= 0 THEN [sleeps |-> FALSE, returned |-> 0, log |-> <<>>]
    ELSE [sleeps |-> TRUE, returned |-> period,
          log |-> <<LogRec("INFO", "sleeping for %s before starting", <<section, period>>)>>]

\* main: clock_start += job.random_sleep() for the job at the cursor
JobSleep ==
    /\ pc = "sleep"
    /\ \E period \in random_duration(jobs[cursor].sleep_interval) :
         \E r \in {random_sleep(jobs[cursor].section, period)} :
         /\ log' = log \o r.log
         /\ events' = IF r.sleeps THEN Append(events, Event("sleep", cursor, period, 0))
                      ELSE events
         /\ clock' = [clock EXCEPT !.now = @ + (IF r.sleeps THEN period ELSE 0),
                                   !.start = @ + r.returned]
    /\ pc' = "download"
    /\ UNCHANGED <<config, job_identifiers, cursor, jobs, handlers, files_read, cli_args,
                   exit_status, unitVars>>

\* main's loop after job number k of n has returned from download
AbortOnFailure(error_code, k, n) ==
    IF error_code /= 0 THEN "crashed" ELSE IF k = n THEN "finish" ELSE "sleep"

AfterDownload(error_code, k, n) == IF k = n THEN "finish" ELSE "sleep"

\* Job.download of the job at the cursor; the engine answers error_code
JobDownload ==
    /\ pc = "download"
    /\ \E error_code \in {0, 1} :
         /\ events' = Append(events, Event("download", cursor, 0, error_code))
         /\ log' = log \o Prefixed(jobs[cursor].section,
                       <<LogRec("DEBUG", "video queue: %s", <<"urls">>),
                         LogRec("INFO", "starting download", <<>>),
                         LogRec("DEBUG", "%s", <<"params">>)>>
                       \o IF error_code /= 0
                          THEN <<LogRec("ERROR", "some videos failed to download", <<>>)>>
                          ELSE <<>>)
         /\ pc' = AfterDownload(error_code, cursor, Len(jobs))
    /\ clock' = [clock EXCEPT !.now = @ + 1]
    /\ cursor' = cursor + 1
    /\ UNCHANGED <<config, job_identifiers, jobs, handlers, files_read, cli_args, exit_status,
                   unitVars>>

\* main: the loop is over; returning from main ends the process with 0
Finish ==
    /\ pc = "finish"
    /\ log' = Append(log, LogRec("INFO", "finished all jobs in %s", <<clock.now - clock.start>>))
    /\ pc' = "done"
    /\ exit_status' = 0
    /\ UNCHANGED <<config, job_identifiers, cursor, jobs, handlers, events, files_read,
                   cli_args, clock, unitVars>>

Next == Startup \/ ParseSection \/ Queued \/ MainSleep \/ JobSleep \/ JobDownload \/ Finish

Spec == Init /\ [][Next]_vars

----------------------------------------------------------------------------
(* Job.random_sleep on its own: one Job with the interval (a, b), at the   *)
(* point where main calls random_sleep on it.                              *)

SleepingJob(a, b) ==
    [section |-> "s1", urls |-> <<>>, view |-> RetSame, options |-> EmptyMap,
     sleep_interval |-> TimeInterval(a, b)]

InitSleep ==
    /\ pc = "sleep"
    /\ IdleOptions /\ IdleFile /\ IdleMap /\ IdleCall
    /\ config = <<>> /\ job_identifiers = <<>> /\ handlers = EmptyMap /\ events = <<>>
    /\ files_read = "read" /\ cli_args = [sleep |-> 0] /\ IdleClock /\ exit_status = -1
    /\ cursor = 1
    /\ \E a, b \in 0..MaxSeconds : jobs = <<SleepingJob(a, b)>>
    /\ ret = NoRet
    /\ log = <<>>

NextSleep == JobSleep

SpecSleep == InitSleep /\ [][NextSleep]_vars

----------------------------------------------------------------------------
(* Claims about parse_config, under Spec *)

HasSection(job) == \E i \in 1..Len(config) : config[i].name = job
SectionNamed(job) == config[CHOOSE i \in 1..Len(config) : config[i].name = job]

\* loading or interpreting the section's options file fails: the file
\* cannot be opened, its text is rejected, it holds null or no mapping, or
\* its options array holds a flag the grammar does not know
OptionsFail(sec) ==
    LET path == IF OPTIONS_FILE \in DOMAIN sec.map THEN sec.map[OPTIONS_FILE] ELSE <<>>
        file == sec.fs.options
    IN  /\ path /= <<>>
        /\ \/ ~file.readable
           \/ Rejects(path, has_yaml, file.doc)
           \/ file.doc.top /= "dict"
           \/ /\ IsList(MapGet(file.doc.map, OPT_KEY))
              /\ GrammarError(MapGet(file.doc.map, OPT_KEY).items)

\* the section passes the checks made before the options file is read
PassesOwnChecks(job) ==
    /\ HasSection(job)
    /\ SUBDIR \in DOMAIN SectionNamed(job).map /\ SectionNamed(job).map[SUBDIR] /= <<>>
    /\ SectionNamed(job).fs.subdir = "ok"
    /\ SOURCE \in DOMAIN SectionNamed(job).map /\ SectionNamed(job).map[SOURCE] /= <<>>
    /\ SectionNamed(job).fs.source.readable

YieldsJob(job) == PassesOwnChecks(job) /\ ~OptionsFail(SectionNamed(job))

JobSections == [i \in 1..Len(jobs) |-> jobs[i].section]

\* C3 (as claimed): a failure to load or interpret a section's options
\* file skips exactly that section: no exception leaves parse_config, and
\* once it is exhausted the Jobs yielded are those of the selected sections
\* that pass their own checks and whose options load, in order.
C3_OptionsFailureSkipsSection ==
    /\ pc /= "crashed"
    /\ pc \in {"sleep", "download", "finish", "done"} =>
           JobSections = SelectSeq(Selected, YieldsJob)

----------------------------------------------------------------------------
(* Claims about the Jobs parse_config yields and the run of main *)

IsPrefix(a, b) == Len(a) <= Len(b) /\ SubSeq(b, 1, Len(a)) = a

\* the "outtmpl" option a Job hands to the engine
OuttmplOf(j) == ResultGet(j.view, j.options, "outtmpl").items

DownloadEvents == SelectSeq(events, LAMBDA e : e.ev = "download")
SleepEvents == SelectSeq(events, LAMBDA e : e.ev = "sleep")
SectionEvents == SelectSeq(events, LAMBDA e : e.ev = "section")

\* one section, whose SubDir is a writable directory and whose Source is an
\* existing empty file
OneEmptySource ==
    /\ Len(config) = 1
    /\ PassesOwnChecks(config[1].name)
    /\ ~InterpolationFails(config[1].map[SUBDIR])
    /\ config[1].fs.source.urls = <<>>
    /\ job_identifiers = <<>>

\* C11 (as claimed): the "outtmpl" of every Job starts with its section's
\* SubDir, whatever the template fragment is (the default, or the options
\* file's own, also an absolute one); a single section with an empty Source
\* gives one Job and one engine call, with no URL.
C11_OuttmplUnderSubDir ==
    /\ \A k \in 1..Len(jobs) :
           IsPrefix(SectionNamed(jobs[k].section).map[SUBDIR], OuttmplOf(jobs[k]))
    /\ (OneEmptySource /\ pc = "done") =>
           /\ Len(jobs) = 1 /\ jobs[1].urls = <<>>
           /\ Len(DownloadEvents) = 1 /\ DownloadEvents[1].job = 1

\* the process has ended
Ended == pc \in {"exited", "crashed", "done"}

\* reading the configuration met an error of the file: search_configs
\* failed to parse it, or a value read from it does not interpolate
Malformed ==
    \/ files_read = "error"
    \/ \E i \in 1..Len(SectionEvents) :
          /\ SectionEvents[i].code = 2
          /\ HasSection(Selected[i])
          /\ SUBDIR \in DOMAIN SectionNamed(Selected[i]).map
          /\ InterpolationFails(SectionNamed(Selected[i]).map[SUBDIR])

\* C12 (as claimed): the process ends with status 100 exactly when no
\* configuration file was found or the file is malformed, and then no job
\* has slept and the engine was never called; every other run ends with 0.
C12_ExitStatus ==
    Ended =>
        /\ exit_status = 100 <=> (files_read = "none" \/ Malformed)
        /\ exit_status = 100 => (SleepEvents = <<>> /\ DownloadEvents = <<>>)
        /\ exit_status /= 100 => exit_status = 0

\* the job loop of main is under way or over
InJobLoop == pc \in {"main_sleep", "sleep", "download", "finish", "done"}

FailedDownloads == SelectSeq(DownloadEvents, LAMBDA e : e.code /= 0)
FailureLogs ==
    SelectSeq(log, LAMBDA rec : rec.level = "ERROR" /\ rec.msg = "some videos failed to download")

\* the sleep of job k is certain: its interval holds no period of 0
SleepDue(k) == jobs[k].sleep_interval.lower > 0 /\ jobs[k].sleep_interval.upper > 0

\* C13: a non-zero engine result is logged as an error and is not fatal.
\* After any engine call, failed or not, the loop stands at the next job,
\* which sleeps when due and has its engine call; the loop never stops
\* short of the "finished all jobs" record, which the run ends with.
C13_FailureNotFatal ==
    DownloadEvents /= <<>> =>
        /\ InJobLoop
        /\ Len(FailureLogs) = Len(FailedDownloads)
        /\ \A k \in 1..Len(DownloadEvents) :
              /\ DownloadEvents[k].job = k
              /\ SleepDue(k) => \E i \in 1..Len(SleepEvents) : SleepEvents[i].job = k
        /\ pc \in {"sleep", "download"} =>
              cursor <= Len(jobs) /\ Len(DownloadEvents) \in {cursor - 1, cursor}
        /\ pc \in {"finish", "done"} => Len(DownloadEvents) = Len(jobs)
        /\ pc /= "done" => ENABLED Next
        /\ pc = "done" => log[Len(log)].msg = "finished all jobs in %s"

\* the first of two jobs failed; the second was downloaded all the same
C13_Witness ==
    /\ pc = "done"
    /\ Len(DownloadEvents) = 2
    /\ DownloadEvents[1].code /= 0
    /\ DownloadEvents[2].code = 0

\* the order the claim names: the command line's identifiers when there
\* are any, the configuration's sections otherwise
ClaimedOrder ==
    IF job_identifiers /= <<>> THEN job_identifiers
    ELSE [i \in 1..Len(config) |-> config[i].name]

RunEvents == SelectSeq(events, LAMBDA e : e.ev \in {"sleep", "download"})
YieldEvents == SelectSeq(SectionEvents, LAMBDA e : e.code = 1)

\* C15: the run has two phases, one after the other.  No sleep and no
\* engine call happens before every selected identifier has had its turn
\* in parse_config, and no turn happens after; the Jobs are those yielded,
\* in the order of the identifiers (of the configuration when there are
\* none); job k's sleep comes right before job k's engine call, which comes
\* before anything of job k+1.
C15_TwoPhases ==
    /\ \A i, j \in 1..Len(events) :
          (i < j /\ events[i].ev \in {"sleep", "download"}) => events[j].ev /= "section"
    /\ RunEvents /= <<>> =>
          /\ Len(SectionEvents) = Len(ClaimedOrder)
          /\ \A i \in 1..Len(SectionEvents) : SectionEvents[i].job = i
    /\ InJobLoop =>
          /\ Len(jobs) = Len(YieldEvents)
          /\ \A k \in 1..Len(jobs) : jobs[k].section = ClaimedOrder[YieldEvents[k].job]
    /\ RunEvents /= <<>> => RunEvents[1].job \in {0, 1}
    /\ \A i \in 1..Len(RunEvents) - 1 :
          /\ RunEvents[i].job = 0 => (i = 1 /\ RunEvents[i + 1].job = 1)
          /\ (RunEvents[i].ev = "sleep" /\ RunEvents[i].job >= 1) =>
                (RunEvents[i + 1].ev = "download" /\ RunEvents[i + 1].job = RunEvents[i].job)
          /\ RunEvents[i].ev = "download" => RunEvents[i + 1].job = RunEvents[i].job + 1

\* two sections named in reverse on the command line, both run, each after
\* its own sleep
C15_Witness ==
    /\ pc = "done"
    /\ job_identifiers = <<"s2", "s1">>
    /\ JobSections = <<"s2", "s1">>
    /\ Len(DownloadEvents) = 2
    /\ \E i, j \in 1..Len(SleepEvents) : SleepEvents[i].job = 1 /\ SleepEvents[j].job = 2

\* the section fails one of the checks the claim lists: the identifier
\* names no section, SubDir is missing, not writable or no directory, or
\* there is no Source that can be read
ListedFailure(job) == ~PassesOwnChecks(job)

SkipMessages ==
    {"no config section found with name: %s", "required key not found in section: %s",
     "path is not writable, skipping %s: %s", "path is not a directory, skipping %s: %s",
     "unable to read source file, skipping %s"}

\* a warning or an error about the skipping of `job` has been logged
SkipLogged(job) ==
    \E i \in 1..Len(log) :
        /\ log[i].level \in {"WARNING", "ERROR"}
        /\ log[i].msg \in SkipMessages
        /\ log[i].args[1] = job

\* C16 (as claimed): a selected identifier that fails a listed check is
\* skipped with a warning or an error logged about it, yields no Job and
\* causes no engine call, and parse_config goes on to the next identifier;
\* every identifier that yields a Job has the engine called exactly once.
C16_SectionStates ==
    /\ \A i \in 1..Len(SectionEvents) :
          ListedFailure(ClaimedOrder[i]) =>
              /\ SectionEvents[i].code = 0
              /\ SkipLogged(ClaimedOrder[i])
              /\ i < Len(ClaimedOrder) => (pc = "parse_config" \/ Len(SectionEvents) > i)
    /\ \A k \in 1..Len(YieldEvents) : ~ListedFailure(ClaimedOrder[YieldEvents[k].job])
    /\ \A k, l \in 1..Len(DownloadEvents) :
          DownloadEvents[k].job = DownloadEvents[l].job => k = l
    /\ pc = "done" =>
          /\ Len(DownloadEvents) = Len(YieldEvents)
          /\ \A k \in 1..Len(DownloadEvents) : DownloadEvents[k].job = k

\* the seconds slept so far, by main and by the jobs
RECURSIVE TotalPeriod(_)
TotalPeriod(evs) == IF evs = <<>> THEN 0 ELSE Head(evs).period + TotalPeriod(Tail(evs))

\* what the "finished all jobs in %s" record reports
ElapsedLogged == log[Len(log)].args[1]

\* C17 (as claimed): the elapsed time logged at completion is the whole
\* span from the start of job assembly to the end of the last download,
\* sleeps included.
C17_ElapsedIncludesSleeps ==
    pc = "done" => ElapsedLogged = clock.now - clock.begun

\* C17 (amended): the elapsed time logged at completion is that span less
\* the time slept, in main's own sleep and in every job's.
C17_ElapsedExcludesSleeps ==
    pc = "done" => ElapsedLogged = (clock.now - clock.begun) - TotalPeriod(SleepEvents)

\* main slept, a job slept, and only the engine call's tick is reported
C17_Witness ==
    /\ pc = "done"
    /\ Len(DownloadEvents) = 1
    /\ \E i, j \in 1..Len(SleepEvents) :
          /\ SleepEvents[i].job = 0 /\ SleepEvents[i].period > 0
          /\ SleepEvents[j].job = 1 /\ SleepEvents[j].period > 0
    /\ ElapsedLogged = 1
    /\ clock.now - clock.begun > 2

\* the logger a Job hands to the engine: logging.getLogger(name) returns
\* the one logger object of that name, so the name stands for the object
LoggerOf(j) == ResultGet(j.view, j.options, "logger").items[1]

\* C18 (as claimed): no two Jobs of a run share a logger, also when they
\* come from the same section named twice on the command line, and
\* assembling one Job leaves the handlers of every other Job's logger as
\* they were: each Job's logger keeps the one console handler its own
\* assembly gave it.
C18_NothingShared ==
    /\ \A i, j \in 1..Len(jobs) : i /= j => LoggerOf(jobs[i]) /= LoggerOf(jobs[j])
    /\ \A k \in 1..Len(jobs) : handlers[LoggerOf(jobs[k])] = <<"console">>

----------------------------------------------------------------------------
(* Claims about Job.random_sleep, under SpecSleep *)

SleepReturned == pc = "download" /\ Len(jobs) = 1 /\ config = <<>>

Least(iv) == IF iv.lower <= iv.upper THEN iv.lower ELSE iv.upper
Most(iv) == IF iv.lower <= iv.upper THEN iv.upper ELSE iv.lower

\* C14: the period drawn for TimeInterval(a, b) lies within
\* [min(a,b), max(a,b)]; when it is greater than 0, random_sleep sleeps for
\* it (once, with one record logged) and returns it; when it is 0,
\* random_sleep does not sleep, logs nothing and returns 0.  What it
\* returns is what main adds to clock_start.
C14_RandomSleep ==
    SleepReturned =>
        \/ /\ Least(jobs[1].sleep_interval) = 0
           /\ events = <<>> /\ log = <<>>
           /\ clock.now = 0 /\ clock.start = 0
        \/ \E p \in Least(jobs[1].sleep_interval)..Most(jobs[1].sleep_interval) :
              /\ p > 0
              /\ events = <<Event("sleep", 1, p, 0)>>
              /\ Len(log) = 1 /\ log[1].level = "INFO"
              /\ clock.now = p /\ clock.start = p

\* the default interval (0, 0): nothing slept, nothing logged
C14_Witness ==
    /\ SleepReturned
    /\ jobs[1].sleep_interval = TimeInterval(0, 0)
    /\ events = <<>> /\ log = <<>> /\ clock.start = 0

====
